---- MODULE Spec2Model ----
(***************************************************************************)
(* Model of src/main.py (Project Euler 26, reciprocal cycles).             *)
(*                                                                         *)
(* main(n) scans the candidates range(2, n), strips the factors 2 and 5    *)
(* from each, and for a candidate that has none of them computes the       *)
(* multiplicative order of 10 modulo the candidate by repeated modular     *)
(* multiplication.  It keeps the first candidate with the strictly         *)
(* greatest order and returns (d_best, d_cycle).                           *)
(*                                                                         *)
(* The model follows the function statement by statement: pc is the        *)
(* position in main, the other variables are its argument and locals.      *)
(* A caller may call main again once a call has ended; `last` is what the  *)
(* caller still holds of the previous call that returned.                  *)
(***************************************************************************)
EXTENDS Integers, Sequences, FiniteSets, TLC

\* Largest integer argument the caller passes.
MaxN == 41

VARIABLES
    pc,         \* position in main: "idle" (no call yet), "assert", "for",
                \* "strip2", "strip5", "branch", "order", "compare", "done"
    n,          \* the argument of the running call, [type, val]
    range_it,   \* next value the iterator of range(2, n) yields
    d_orig,     \* loop variable of the for loop
    d,          \* d_orig with the factors 2 and 5 stripped so far
    count_2s,
    count_5s,
    w,
    p,
    d_best,     \* None or Some(denominator)
    d_cycle,
    outcome,    \* how the call ended: Pending, Raised or Returned(d_best, d_cycle)
    last        \* <<>> or <<[n, d, cycle]>>: the previous call that returned

vars == <<pc, n, range_it, d_orig, d, count_2s, count_5s, w, p,
          d_best, d_cycle, outcome, last>>

locals == <<range_it, d_orig, d, count_2s, count_5s, w, p>>

----------------------------------------------------------------------------
(* Values *)

\* Python's None, and an int held where None may be held.
None == <<>>
Some(x) == <<x>>

\* An argument is a Python object: its type and, as an integer, its value
\* (5.0 and "5" are [type |-> "float", val |-> 5] and [type |-> "str", val |-> 5]).
IntArgs == [type : {"int"}, val : (0 - 1)..MaxN]
OtherArgs == [type : {"float", "str", "bool"}, val : {1, 5}]
Args == IntArgs \cup OtherArgs

Pending == [kind |-> "pending"]
Raised == [kind |-> "raised", error |-> "AssertionError"]
Returned(b, c) == [kind |-> "returned", d |-> b, cycle |-> c]

----------------------------------------------------------------------------
(* The conditions and expressions of main *)

\* line 69: assert type(n) == int and n > 2
Precondition_Ge2(a) == a.type = "int" /\ a.val >= 2
Precondition(a) == a.type = "int" /\ a.val > 2

\* line 74: the iterator of range(2, n) has a next value
RangeHasNext_Incl(i, a) == i <= a.val
RangeHasNext(i, a) == i < a.val

\* line 78: while d % 2 == 0
Div2Check(x) == x % 2 = 0

\* line 82: while d % 5 == 0
Div5Check_Copy(x) == x % 2 = 0
Div5Check(x) == x % 5 = 0

\* line 100: p = 10 % d
OrderInit_Sq(x) == 100 % x
OrderInit(x) == 10 % x

\* line 102: p = (10*p) % d
OrderNext(q, x) == (10 * q) % x

\* line 105: if w > d_cycle
IsBetter_Ge(v, c) == v >= c
IsBetter_Always(v, c) == TRUE
IsBetter_Ne(v, c) == v # c
IsBetter(v, c) == v > c

----------------------------------------------------------------------------
(* The steps of main *)

\* No call has been made.
Init ==
    /\ pc = "idle"
    /\ n = [type |-> "int", val |-> 0]
    /\ range_it = 0 /\ d_orig = 0 /\ d = 0
    /\ count_2s = 0 /\ count_5s = 0 /\ w = 0 /\ p = 0
    /\ d_best = None /\ d_cycle = 0
    /\ outcome = Pending
    /\ last = <<>>

\* line 119: the caller calls main(a); a new frame, no local is bound yet.
Call(a) ==
    /\ pc \in {"idle", "done"}
    /\ pc' = "assert"
    /\ n' = a
    /\ range_it' = 0 /\ d_orig' = 0 /\ d' = 0
    /\ count_2s' = 0 /\ count_5s' = 0 /\ w' = 0 /\ p' = 0
    /\ d_best' = None /\ d_cycle' = 0
    /\ outcome' = Pending
    /\ last' = IF outcome.kind = "returned"
               THEN <<[n |-> n.val, d |-> outcome.d, cycle |-> outcome.cycle]>>
               ELSE last

\* lines 69-74: the assertion passes; d_best = None, d_cycle = 0, range(2, n)
AssertOk ==
    /\ pc = "assert"
    /\ Precondition(n)
    /\ d_best' = None
    /\ d_cycle' = 0
    /\ range_it' = 2
    /\ pc' = "for"
    /\ UNCHANGED <<n, d_orig, d, count_2s, count_5s, w, p, outcome, last>>

\* line 69: the assertion fails, AssertionError leaves main
AssertFail ==
    /\ pc = "assert"
    /\ ~Precondition(n)
    /\ outcome' = Raised
    /\ pc' = "done"
    /\ UNCHANGED <<n, locals, d_best, d_cycle, last>>

\* lines 74-77: the next candidate; d = d_orig, count_2s = 0
ForNext ==
    /\ pc = "for"
    /\ RangeHasNext(range_it, n)
    /\ d_orig' = range_it
    /\ range_it' = range_it + 1
    /\ d' = range_it
    /\ count_2s' = 0
    /\ pc' = "strip2"
    /\ UNCHANGED <<n, count_5s, w, p, d_best, d_cycle, outcome, last>>

\* lines 74, 114: the range is exhausted; return d_best, d_cycle
ForExit ==
    /\ pc = "for"
    /\ ~RangeHasNext(range_it, n)
    /\ outcome' = Returned(d_best, d_cycle)
    /\ pc' = "done"
    /\ UNCHANGED <<n, locals, d_best, d_cycle, last>>

\* lines 78-80: one turn of while d % 2 == 0
Strip2 ==
    /\ pc = "strip2"
    /\ Div2Check(d)
    /\ d' = d \div 2
    /\ count_2s' = count_2s + 1
    /\ UNCHANGED <<pc, n, range_it, d_orig, count_5s, w, p, d_best, d_cycle,
                   outcome, last>>

\* lines 78, 81: the first while loop ends; count_5s = 0
Strip2Done ==
    /\ pc = "strip2"
    /\ ~Div2Check(d)
    /\ count_5s' = 0
    /\ pc' = "strip5"
    /\ UNCHANGED <<n, range_it, d_orig, d, count_2s, w, p, d_best, d_cycle,
                   outcome, last>>

\* lines 82-84: one turn of while d % 5 == 0
Strip5 ==
    /\ pc = "strip5"
    /\ Div5Check(d)
    /\ d' = d \div 5
    /\ count_5s' = count_5s + 1
    /\ UNCHANGED <<pc, n, range_it, d_orig, count_2s, w, p, d_best, d_cycle,
                   outcome, last>>

\* line 82: the second while loop ends
Strip5Done ==
    /\ pc = "strip5"
    /\ ~Div5Check(d)
    /\ pc' = "branch"
    /\ UNCHANGED <<n, locals, d_best, d_cycle, outcome, last>>

\* lines 86-87, 99-100: d != 1 and nothing was stripped; w = 1, p = 10 % d
EnterOrder ==
    /\ pc = "branch"
    /\ d # 1
    /\ count_2s = 0 /\ count_5s = 0
    /\ w' = 1
    /\ p' = OrderInit(d)
    /\ pc' = "order"
    /\ UNCHANGED <<n, range_it, d_orig, d, count_2s, count_5s, d_best, d_cycle,
                   outcome, last>>

\* A terminating decimal taken for a recurring one: the length of its
\* fractional part, max(count_2s, count_5s), is recorded as a cycle length.
SkipTerminating_Credit ==
    /\ pc = "branch"
    /\ d = 1
    /\ LET m == IF count_2s > count_5s THEN count_2s ELSE count_5s
       IN  IF m > d_cycle
           THEN d_best' = Some(d_orig) /\ d_cycle' = m
           ELSE UNCHANGED <<d_best, d_cycle>>
    /\ pc' = "for"
    /\ UNCHANGED <<n, locals, outcome, last>>

\* lines 86-87, 108-110: d != 1 but d_orig was reduced to d; continue
SkipReduced ==
    /\ pc = "branch"
    /\ d # 1
    /\ ~(count_2s = 0 /\ count_5s = 0)
    /\ pc' = "for"
    /\ UNCHANGED <<n, locals, d_best, d_cycle, outcome, last>>

\* lines 86, 111-113: d == 1, 1/d_orig terminates; continue
SkipTerminating ==
    /\ pc = "branch"
    /\ d = 1
    /\ pc' = "for"
    /\ UNCHANGED <<n, locals, d_best, d_cycle, outcome, last>>

\* lines 101-103: one turn of while p != 1
OrderStep ==
    /\ pc = "order"
    /\ p # 1
    /\ p' = OrderNext(p, d)
    /\ w' = w + 1
    /\ UNCHANGED <<pc, n, range_it, d_orig, d, count_2s, count_5s, d_best,
                   d_cycle, outcome, last>>

\* line 101: the while loop ends with p == 1
OrderDone ==
    /\ pc = "order"
    /\ p = 1
    /\ pc' = "compare"
    /\ UNCHANGED <<n, locals, d_best, d_cycle, outcome, last>>

\* lines 105-107: w > d_cycle; d_best = d, d_cycle = w
UpdateBest ==
    /\ pc = "compare"
    /\ IsBetter(w, d_cycle)
    /\ d_best' = Some(d)
    /\ d_cycle' = w
    /\ pc' = "for"
    /\ UNCHANGED <<n, locals, outcome, last>>

\* line 105: not (w > d_cycle)
KeepBest ==
    /\ pc = "compare"
    /\ ~IsBetter(w, d_cycle)
    /\ pc' = "for"
    /\ UNCHANGED <<n, locals, d_best, d_cycle, outcome, last>>

\* A step of a running call.
MainStep ==
    \/ AssertOk
    \/ AssertFail
    \/ ForNext
    \/ ForExit
    \/ Strip2
    \/ Strip2Done
    \/ Strip5
    \/ Strip5Done
    \/ EnterOrder
    \/ SkipReduced
    \/ SkipTerminating
    \/ OrderStep
    \/ OrderDone
    \/ UpdateBest
    \/ KeepBest

Next ==
    \/ \E a \in Args : Call(a)
    \/ MainStep

Spec == Init /\ [][Next]_vars

\* main is sequential code: a call that has a next statement executes it.
FairSpec == Spec /\ WF_vars(MainStep)

----------------------------------------------------------------------------
(* Reference arithmetic, independent of main's loops *)

Coprime10(k) == k % 2 # 0 /\ k % 5 # 0

\* Long division of 1 by k: the remainders met so far, in order.  A remainder
\* 0 ends the expansion (no recurring cycle, length 0); the first remainder
\* met again closes the cycle, whose length is the distance to its first
\* occurrence.
RECURSIVE LongDiv(_, _, _)
LongDiv(k, r, seen) ==
    IF r = 0 THEN 0
    ELSE IF \E i \in 1..Len(seen) : seen[i] = r
         THEN Len(seen) + 1 - (CHOOSE i \in 1..Len(seen) : seen[i] = r)
         ELSE LongDiv(k, (10 * r) % k, Append(seen, r))

CycleLen(k) == LongDiv(k, 1 % k, <<>>)

\* b^e mod m by squaring.
RECURSIVE PowMod(_, _, _)
PowMod(b, e, m) ==
    IF e = 0 THEN 1 % m
    ELSE IF e % 2 = 0
         THEN LET h == PowMod(b, e \div 2, m) IN (h * h) % m
         ELSE (b * PowMod(b, e - 1, m)) % m

\* The multiplicative order of 10 modulo k, for k coprime to 10 (0 when no
\* power of 10 up to the k-th is congruent to 1).
MultOrder(k) ==
    LET hits == {e \in 1..k : PowMod(10, e, k) = 1}
    IN  IF hits = {} THEN 0
        ELSE CHOOSE e \in hits : \A f \in hits : e <= f

CycleLenOf == [k \in 2..(MaxN + 1) |-> CycleLen(k)]
MultOrderOf == [k \in 2..(MaxN + 1) |-> MultOrder(k)]

\* Over the denominators 2..m: the greatest cycle length (0 if none recurs)
\* and the smallest denominator that has a given length.
MaxCycle(m) ==
    LET ls == {CycleLenOf[k] : k \in 2..m} \cup {0}
    IN  CHOOSE l \in ls : \A x \in ls : x <= l

FirstWith(m, l) ==
    LET ks == {k \in 2..m : CycleLenOf[k] = l}
    IN  CHOOSE k \in ks : \A x \in ks : k <= x

\* The pair the search should hold once the denominators 2..m are processed.
BestOver(m) ==
    IF MaxCycle(m) = 0 THEN <<None, 0>>
    ELSE <<Some(FirstWith(m, MaxCycle(m))), MaxCycle(m)>>

InvalidArg(a) == a.type # "int" \/ a.val <= 2

InIteration == pc \in {"strip2", "strip5", "branch", "order", "compare"}

----------------------------------------------------------------------------
(* Claims *)

\* C1: when some denominator in [2, n) has a recurring cycle, main(n) returns
\* the greatest cycle length that long division finds over ALL denominators
\* of [2, n) and the smallest denominator that has it; main(11) = (7, 6).
C1_ReturnsSmallestLongest ==
    (outcome.kind = "returned" /\ MaxCycle(n.val - 1) > 0) =>
        /\ outcome.cycle = MaxCycle(n.val - 1)
        /\ outcome.d = Some(FirstWith(n.val - 1, MaxCycle(n.val - 1)))
        /\ (n.val = 11 => outcome = Returned(Some(7), 6))

\* main(14): 1/7 and 1/13 both have the longest cycle, 7 is returned.
C1_Witness ==
    /\ outcome = Returned(Some(7), 6)
    /\ n.val = 14
    /\ CycleLenOf[13] = 6 /\ CycleLenOf[12] = 1

\* C2: for every n > 2 main(n) returns an actual denominator of [2, n), never
\* None, and a cycle length of at least 1, never 0.
C2_ResultDefined ==
    outcome.kind = "returned" =>
        /\ outcome.d # None
        /\ outcome.d[1] \in 2..(n.val - 1)
        /\ outcome.cycle >= 1

\* C3: the returned pair (d, cycle_length) satisfies cycle_length <= d - 1.
C3_CycleBelowDenominator ==
    outcome.kind = "returned" =>
        /\ outcome.d # None
        /\ outcome.cycle <= outcome.d[1] - 1

C5_InvalidArgumentRaises ==
    (pc \notin {"idle", "assert"} /\ InvalidArg(n)) =>
        /\ pc = "done"
        /\ outcome = Raised
        /\ range_it = 0 /\ d_orig = 0
        /\ d_best = None /\ d_cycle = 0

\* main(2) has raised.
C5_Witness ==
    /\ pc = "done"
    /\ outcome = Raised
    /\ n = [type |-> "int", val |-> 2]

\* C6: no step of the iteration for a candidate divisible by 2 or by 5
\* changes d_best or d_cycle, and the returned denominator is never
\* divisible by 2 or 5.
C6_ReducibleCandidateIgnored ==
    /\ [][(InIteration /\ ~Coprime10(d_orig)) => UNCHANGED <<d_best, d_cycle>>]_vars
    /\ []((outcome.kind = "returned" /\ outcome.d # None) => Coprime10(outcome.d[1]))

\* The iteration for 40 = 2^3 * 5 is over and the best pair is still that of 29.
C6_Witness ==
    /\ pc = "for"
    /\ d_orig = 40 /\ d = 1 /\ count_2s = 3 /\ count_5s = 1
    /\ d_best = Some(29) /\ d_cycle = 28

\* C7: for 2 < n1 < n2 the cycle length main(n2) returns is at least the one
\* main(n1) returns (the two calls in either order).
C7_Monotone ==
    (outcome.kind = "returned" /\ last # <<>>) =>
        /\ (last[1].n < n.val => last[1].cycle <= outcome.cycle)
        /\ (n.val < last[1].n => outcome.cycle <= last[1].cycle)

\* main(7) returned (3, 1), then main(8) returned (7, 6).
C7_Witness ==
    /\ last = <<[n |-> 7, d |-> Some(3), cycle |-> 1]>>
    /\ outcome = Returned(Some(7), 6)
    /\ n.val = 8

\* C8: at the head of the loop, with the candidates 2..k processed, d_cycle
\* is the greatest cycle length long division finds over 2..k (0 if none)
\* and d_best the smallest denominator that has it (None if none); within a
\* call d_cycle never decreases and d_best changes only when d_cycle grows.
C8_LoopInvariant ==
    /\ [](pc = "for" => <<d_best, d_cycle>> = BestOver(range_it - 1))
    /\ [][pc \notin {"idle", "done"} =>
            /\ d_cycle' >= d_cycle
            /\ (d_best' # d_best => d_cycle' > d_cycle)]_vars

\* The iteration for 13 is over: its order 6 equals d_cycle and 7 is kept.
C8_Witness ==
    /\ pc = "for"
    /\ d_orig = 13 /\ w = 6
    /\ d_best = Some(7) /\ d_cycle = 6

\* C9: every candidate d >= 3 divisible by neither 2 nor 5 reaches the inner
\* loop unreduced, and the loop exits with w the multiplicative order of 10
\* modulo d, 1 <= w <= d.
C9_InnerLoopComputesOrder ==
    /\ (pc = "branch" /\ d_orig >= 3 /\ Coprime10(d_orig)) =>
            (d = d_orig /\ count_2s = 0 /\ count_5s = 0)
    /\ pc = "compare" =>
            /\ d = d_orig /\ d >= 3 /\ Coprime10(d)
            /\ p = 1
            /\ w = MultOrderOf[d]
            /\ PowMod(10, w, d) = 1
            /\ \A v \in 1..(w - 1) : PowMod(10, v, d) # 1
            /\ 1 <= w /\ w <= d

\* The inner loop for 7 has exited with w = 6.
C9_Witness ==
    /\ pc = "compare"
    /\ d = 7 /\ w = 6 /\ p = 1

\* C10: every call ends; the candidates are taken in steps of one from 2 and
\* a call returns only after candidate n - 1; the stripping loops only shrink
\* d; in the inner loop p is never 0 and p was updated at most d times,
\* d <= n.
C10_Terminates ==
    /\ (pc = "assert") ~> (pc = "done")
    /\ [][d_orig' # d_orig =>
            \/ pc' = "assert"
            \/ d_orig' = (IF d_orig = 0 THEN 2 ELSE d_orig + 1) /\ d_orig' < n.val]_vars
    /\ [](outcome.kind = "returned" => d_orig = n.val - 1)
    /\ [](pc \in {"strip2", "strip5"} => (d >= 1 /\ d <= d_orig))
    /\ [](pc = "order" => (p \in 1..(d - 1) /\ w - 1 <= d /\ d <= n.val))

\* main(30) has returned after the 27 updates of p for the candidate 29.
C10_Witness ==
    /\ pc = "done"
    /\ n.val = 30
    /\ outcome = Returned(Some(29), 28)
    /\ w = 28

====
